---- MODULE Spec2Model ----
(***************************************************************************)
(* Model of gis_tool/buffer_processor.py (create_buffer_with_geopandas,    *)
(* subtract_parks_from_buffer, merge_buffers_into_planning_file) and of    *)
(* gis_tool/data_loader.py (create_pipeline_features).                     *)
(*                                                                         *)
(* A geometry is a kind, the set of unit cells of a line it occupies and a *)
(* validity status; a dataset (GeoDataFrame) is a CRS and a sequence of    *)
(* rows.  Each function is a sequence of steps over its local variables;   *)
(* pc is the position in the running call.  Spec is the behaviour of the   *)
(* buffer functions, SpecLoader that of repeated report loading.           *)
(***************************************************************************)
EXTENDS Integers, Sequences, FiniteSets, TLC

VARIABLES
    pc,                     \* position in the running call
    op,                     \* the function the caller invoked
    input_gas_lines,        \* dataset stored at input_gas_lines_path
    buffer_distance_ft,     \* Optional[float]: <<>> is None
    parks_path,             \* Optional[str]: <<>> is None
    parks_file,             \* dataset stored at parks_path
    use_multiprocessing,
    subtract_multiprocessing, \* use_multiprocessing of subtract_parks_from_buffer
    arg_buffer_gdf,         \* buffer_gdf as passed to subtract_parks_from_buffer
    unique_output_buffer,   \* dataset stored at the buffer layer's path
    future_development_feature_class, \* dataset stored at the planning path
    planning_on_load,       \* the planning layer as read by the running merge
    point_buffer_distance,
    arg_output_crs,         \* output_crs as passed: Optional[CRSLike], <<>> is None
    merges,                 \* number of merges of the buffer file into the planning file
    output_crs,             \* the local output_crs, reassigned when None
    buffer_distance_m,
    gas_lines_gdf,
    buffer_gdf,
    parks_gdf,
    future_dev_gdf,
    merged_gdf,
    par,                    \* the parallel batch: tasks, results, completion order
    ret,                    \* how the call ended and what it returned
    log,                    \* the geometry and file operations performed
    geojson_reports,        \* data_loader: the (report_name, gdf) list passed
    txt_reports,            \* data_loader: the (report_name, lines) list passed
    use_mongodb,
    gas_lines_collection,   \* Optional[Collection]: <<>> is None
    processed_reports,      \* the set passed to, updated and returned by the call
    processed_pipelines,
    features_gdf,           \* data_loader's gas_lines_gdf, the rows it appended
    features_added,
    upserts,                \* the upsert requests sent to gas_lines_collection
    report_idx,             \* position of the loop over the reports
    calls                   \* number of create_pipeline_features calls so far

createVars == <<input_gas_lines, buffer_distance_ft, buffer_distance_m,
                use_multiprocessing, gas_lines_gdf>>
subtractVars == <<parks_path, parks_file, subtract_multiprocessing,
                  arg_buffer_gdf, parks_gdf>>
mergeVars == <<unique_output_buffer, future_development_feature_class,
               planning_on_load, point_buffer_distance, arg_output_crs, output_crs,
               future_dev_gdf, merged_gdf, merges>>
loaderVars == <<geojson_reports, txt_reports, use_mongodb, gas_lines_collection,
                processed_reports, processed_pipelines, features_gdf,
                features_added, upserts, report_idx, calls>>
bufferVars == <<createVars, subtractVars, mergeVars, buffer_gdf, par, ret, log>>
vars == <<pc, op, bufferVars, loaderVars>>

----------------------------------------------------------------------------
(* Bounds *)

MaxRows == 2
MaxParkRows == 2
MaxMerges == 2

----------------------------------------------------------------------------
(* Coordinate reference systems *)

NoCRS == "unset"
GEOGRAPHIC_CRS == "EPSG:4326"
BUFFER_LAYER_CRS == "EPSG:32610"
DEFAULT_CRS == "EPSG:4326"
PROJECTED_CRS == "EPSG:32633"
WEB_MERCATOR == "EPSG:3857"

is_geographic(crs) == crs = "EPSG:4326"

is_projected(crs) == crs \in {"EPSG:32610", "EPSG:32633", "EPSG:3857"}

----------------------------------------------------------------------------
(* Geometries *)

Geom(k, c, s) == [kind |-> k, cells |-> c, ok |-> s]

NullGeom == Geom("None", {}, "null")

notnull(g) == g.kind # "None"

is_valid(g) == notnull(g) /\ g.ok = "valid"

is_empty(g) == notnull(g) /\ g.cells = {}

Contiguous(S) == \A a \in S : \A b \in S : \A c \in a..b : c \in S

PolyKind(S) == IF Contiguous(S) THEN "Polygon" ELSE "MultiPolygon"

Expand(S, r) == UNION {(c - r)..(c + r) : c \in S}

convert_ft_to_m(ft) == ft * 3048

(* distances are in units of 0.1 mm; a cell of the line is 10 ft wide *)
CellWidth == convert_ft_to_m(10)

Reach(dist) == dist \div CellWidth

(* shapely buffer: a polygon around the geometry; distance <= 0 of a point
   or a line leaves nothing *)
buffer(g, dist) ==
    IF ~notnull(g) THEN NullGeom
    ELSE LET c == IF dist <= 0 /\ g.kind \notin {"Polygon", "MultiPolygon"}
                  THEN {} ELSE Expand(g.cells, Reach(dist))
         IN  Geom(PolyKind(c), c, IF g.ok = "broken" THEN "broken" ELSE "valid")

difference(g, p) ==
    IF ~notnull(g) THEN NullGeom
    ELSE Geom(IF g.kind \in {"Polygon", "MultiPolygon"}
              THEN PolyKind(g.cells \ p.cells) ELSE g.kind,
              g.cells \ p.cells, g.ok)

intersects(a, b) == notnull(a) /\ notnull(b) /\ (a.cells \cap b.cells) # {}

fix_geometry(g) ==
    IF g.ok = "repairable" THEN [g EXCEPT !.ok = "valid"] ELSE g

RECURSIVE subtract_park_from_geom(_, _)
subtract_park_from_geom(geom, parks_geoms) ==
    IF parks_geoms = <<>> THEN geom
    ELSE subtract_park_from_geom(difference(geom, Head(parks_geoms)),
                                 Tail(parks_geoms))

subtract_park_from_geom_helper(args) == subtract_park_from_geom(args[1], args[2])

buffer_geometry_helper(args) == buffer(args[1], args[2])

DEFAULT_BUFFER_DISTANCE_FT == 25

----------------------------------------------------------------------------
(* Datasets *)

Dataset(crs, rows) == [crs |-> crs, rows |-> rows]

NoDataset == Dataset(NoCRS, <<>>)

Rows(layer, geoms) ==
    [i \in 1..Len(geoms) |-> [layer |-> layer, fid |-> i, geom |-> geoms[i]]]

empty(gdf) == gdf.rows = <<>>

geometry(gdf) == [i \in 1..Len(gdf.rows) |-> gdf.rows[i].geom]

set_geometry(gdf, geoms) ==
    [gdf EXCEPT !.rows = [i \in 1..Len(gdf.rows) |->
                             [gdf.rows[i] EXCEPT !.geom = geoms[i]]]]

apply(gdf, F(_)) ==
    set_geometry(gdf, [i \in 1..Len(gdf.rows) |-> F(gdf.rows[i].geom)])

filter(gdf, Keep(_)) ==
    [gdf EXCEPT !.rows = SelectSeq(gdf.rows, LAMBDA r : Keep(r.geom))]

set_crs(gdf, crs) == [gdf EXCEPT !.crs = crs]

to_crs(gdf, crs) == [gdf EXCEPT !.crs = crs]

ensure_projected_crs(gdf) ==
    IF is_geographic(gdf.crs) THEN to_crs(gdf, PROJECTED_CRS) ELSE gdf

validate_and_reproject_crs(gdf, target, name) ==
    LET tagged == IF gdf.crs = NoCRS THEN set_crs(gdf, DEFAULT_CRS) ELSE gdf
    IN  IF target # NoCRS /\ tagged.crs # target THEN to_crs(tagged, target)
        ELSE tagged

log_and_filter_invalid_geometries(gdf, label) ==
    filter(gdf, LAMBDA g : notnull(g) /\ is_valid(g) /\ ~is_empty(g))

clean_geodataframe(gdf) ==
    filter(gdf, LAMBDA g : notnull(g) /\ is_valid(g) /\ ~is_empty(g))

buffer_intersects_gas_lines(buf_geom, gdf) ==
    \E i \in 1..Len(gdf.rows) : intersects(buf_geom, gdf.rows[i].geom)

----------------------------------------------------------------------------
(* Result and log *)

NoReturn == [how |-> "running", value |-> NoDataset]

Returned(gdf) == [how |-> "return", value |-> gdf]

(* the error logged and an empty dataset returned in its place *)
Swallowed == [how |-> "return", value |-> NoDataset]

(* the except clause: the error is logged and raised again *)
Raised == [how |-> "raise", value |-> NoDataset]

Event(ev, crs) == [ev |-> ev, crs |-> crs]

NoBatch == [tasks |-> <<>>, done |-> <<>>]

(* parallel_process: the results of the finished tasks, by submission index *)
parallel_process(batch) ==
    [i \in 1..Len(batch.tasks) |->
        batch.done[CHOOSE k \in 1..Len(batch.done) : batch.done[k].idx = i].out]

SeqsUpTo(S, n) == UNION {[1..k -> S] : k \in 0..n}

----------------------------------------------------------------------------
(* Inputs *)

InputCRS == {NoCRS, "EPSG:4326", "EPSG:32610"}

SourceGeoms ==
    { Geom("LineString", {2}, "valid"), Geom("Point", {0}, "valid"),
      Geom("Polygon", {2}, "valid"), Geom("LineString", {4}, "broken"),
      Geom("LineString", {}, "valid"), NullGeom }

ParkGeoms ==
    { Geom("Polygon", {2}, "valid"), Geom("Polygon", {1, 2}, "valid"),
      Geom("Polygon", {3}, "valid"), Geom("Polygon", {1, 2, 3}, "repairable"),
      Geom("Point", {2}, "valid"), Geom("Polygon", {2}, "broken") }

BufferGeoms ==
    { Geom("Polygon", {1, 2, 3}, "valid"), Geom("Polygon", {2}, "valid"),
      Geom("Polygon", {3}, "repairable"), Geom("Polygon", {}, "valid"),
      Geom("Polygon", {1}, "broken"), NullGeom }

DistancesFt == {<<>>, <<0>>, <<10>>}

GasFiles ==
    { Dataset(c, Rows("gas", g)) : c \in InputCRS, g \in SeqsUpTo(SourceGeoms, MaxRows) }

ParkFiles ==
    { Dataset(c, Rows("park", g)) :
        c \in {NoCRS, "EPSG:32610"}, g \in SeqsUpTo(ParkGeoms, MaxParkRows) }

BufferLayers ==
    { Dataset(c, Rows("buffer", g)) :
        c \in {"EPSG:32610"}, g \in SeqsUpTo(BufferGeoms, MaxRows) }

MergeBufferGeoms ==
    { Geom("Polygon", {1, 2, 3}, "valid"), Geom("Polygon", {}, "valid"),
      Geom("Polygon", {5}, "repairable"), Geom("LineString", {2}, "valid"),
      Geom("MultiPolygon", {1, 3}, "valid") }

PlanningGeoms ==
    { Geom("Polygon", {7}, "valid"), Geom("Point", {8}, "valid"),
      Geom("LineString", {8, 9}, "valid"), Geom("MultiPoint", {8}, "valid"),
      Geom("Polygon", {9}, "broken") }

MergeBufferFiles ==
    { Dataset(c, Rows("buffer", g)) :
        c \in InputCRS, g \in SeqsUpTo(MergeBufferGeoms, MaxRows) }

PlanningFiles ==
    { Dataset(c, Rows("planning", g)) :
        c \in InputCRS, g \in SeqsUpTo(PlanningGeoms, MaxRows) }

OutputCRS == {<<>>, <<"EPSG:4326">>, <<"EPSG:3857">>}

(* point_buffer_distance, in the unit of buffer_distance_m: 0 and 10 m *)
PointBufferDistances == {0, 100000}

----------------------------------------------------------------------------
Init ==
    /\ pc = "idle"
    /\ op = "none"
    /\ input_gas_lines = NoDataset
    /\ buffer_distance_ft = <<>>
    /\ parks_path = <<>>
    /\ parks_file = NoDataset
    /\ use_multiprocessing = FALSE
    /\ subtract_multiprocessing = FALSE
    /\ arg_buffer_gdf = NoDataset
    /\ unique_output_buffer = NoDataset
    /\ future_development_feature_class = NoDataset
    /\ planning_on_load = NoDataset
    /\ point_buffer_distance = 0
    /\ arg_output_crs = <<>>
    /\ merges = 0
    /\ output_crs = <<>>
    /\ buffer_distance_m = 0
    /\ gas_lines_gdf = NoDataset
    /\ buffer_gdf = NoDataset
    /\ parks_gdf = NoDataset
    /\ future_dev_gdf = NoDataset
    /\ merged_gdf = NoDataset
    /\ par = NoBatch
    /\ ret = NoReturn
    /\ log = <<>>
    /\ geojson_reports = <<>>
    /\ txt_reports = <<>>
    /\ use_mongodb = TRUE
    /\ gas_lines_collection = <<>>
    /\ processed_reports = {}
    /\ processed_pipelines = {}
    /\ features_gdf = Dataset("EPSG:32610", <<>>)
    /\ features_added = FALSE
    /\ upserts = <<>>
    /\ report_idx = 0
    /\ calls = 0

----------------------------------------------------------------------------
(* create_buffer_with_geopandas *)

(* the call, with the distance defaulted and converted to metres *)
create_buffer_with_geopandas ==
    /\ pc = "idle"
    /\ \E ft \in DistancesFt, pp \in {<<>>, <<"parks.shp">>}, mp \in BOOLEAN :
          /\ buffer_distance_ft' = ft
          /\ parks_path' = pp
          /\ use_multiprocessing' = mp
          /\ buffer_distance_m' =
                convert_ft_to_m(IF ft = <<>> THEN DEFAULT_BUFFER_DISTANCE_FT
                                ELSE ft[1])
    /\ op' = "create_buffer_with_geopandas"
    /\ pc' = "cb_read"
    /\ UNCHANGED <<loaderVars, input_gas_lines, gas_lines_gdf, parks_file,
                   subtract_multiprocessing, arg_buffer_gdf, parks_gdf,
                   mergeVars, buffer_gdf, par, ret, log>>

(* the gas lines keep the CRS they were read with *)
gas_lines_crs_as_read(gdf) ==
    IF gdf.crs = NoCRS THEN set_crs(gdf, DEFAULT_CRS) ELSE gdf

(* the default CRS is assigned if there is none; the CRS is then projected *)
gas_lines_crs(gdf) ==
    ensure_projected_crs(IF gdf.crs = NoCRS THEN set_crs(gdf, DEFAULT_CRS) ELSE gdf)

(* read the gas lines and normalise their CRS *)
cb_read ==
    /\ pc = "cb_read"
    /\ \E file \in GasFiles :
          /\ input_gas_lines' = file
          /\ gas_lines_gdf' = gas_lines_crs(file)
    /\ pc' = "cb_validate"
    /\ UNCHANGED <<loaderVars, op, buffer_distance_ft, buffer_distance_m, use_multiprocessing,
                   subtractVars, mergeVars, buffer_gdf, par, ret, log>>

allowed_geom_types == {"Point", "LineString", "MultiLineString", "MultiPoint"}

(* the filters, going on to the buffering even when no row is left *)
cb_validate_without_early_return ==
    /\ pc = "cb_validate"
    /\ gas_lines_gdf' =
          log_and_filter_invalid_geometries(
              filter(gas_lines_gdf, LAMBDA g : g.kind \in allowed_geom_types),
              "Gas Lines")
    /\ pc' = "cb_buffer"
    /\ UNCHANGED <<loaderVars, op, input_gas_lines, buffer_distance_ft, buffer_distance_m,
                   use_multiprocessing, subtractVars, mergeVars, buffer_gdf,
                   par, ret, log>>

(* the kind filter, the invalid-geometry filter and the early return *)
cb_validate ==
    /\ pc = "cb_validate"
    /\ LET kept == log_and_filter_invalid_geometries(
                      filter(gas_lines_gdf, LAMBDA g : g.kind \in allowed_geom_types),
                      "Gas Lines")
       IN  /\ gas_lines_gdf' = kept
           /\ IF empty(kept)
              THEN pc' = "done" /\ ret' = Returned(kept)
              ELSE pc' = "cb_buffer" /\ ret' = ret
    /\ UNCHANGED <<loaderVars, op, input_gas_lines, buffer_distance_ft, buffer_distance_m,
                   use_multiprocessing, subtractVars, mergeVars, buffer_gdf,
                   par, log>>

(* the argument tuples, last row first *)
buffer_args_reversed(gdf, dist) ==
    [i \in 1..Len(gdf.rows) |-> <<gdf.rows[Len(gdf.rows) + 1 - i].geom, dist>>]

(* args: one (geom, buffer_distance_m) tuple per row, in row order *)
buffer_args(gdf, dist) ==
    [i \in 1..Len(gdf.rows) |-> <<gdf.rows[i].geom, dist>>]

(* buffering: the tasks are submitted, or every geometry is buffered in turn *)
cb_buffer ==
    /\ pc = "cb_buffer"
    /\ log' = Append(log, Event("buffer", gas_lines_gdf.crs))
    /\ IF use_multiprocessing
       THEN /\ par' = [tasks |-> buffer_args(gas_lines_gdf, buffer_distance_m),
                       done |-> <<>>]
            /\ pc' = "cb_parallel"
            /\ UNCHANGED gas_lines_gdf
       ELSE /\ gas_lines_gdf' =
                  apply(gas_lines_gdf, LAMBDA g : buffer(g, buffer_distance_m))
            /\ pc' = "cb_fix"
            /\ UNCHANGED par
    /\ UNCHANGED <<loaderVars, op, input_gas_lines, buffer_distance_ft, buffer_distance_m,
                   use_multiprocessing, subtractVars, mergeVars, buffer_gdf, ret>>

(* a worker finishes one task of the batch *)
worker ==
    /\ pc \in {"cb_parallel", "sp_parallel"}
    /\ \E i \in 1..Len(par.tasks) :
          /\ \A k \in 1..Len(par.done) : par.done[k].idx # i
          /\ par' = [par EXCEPT !.done = Append(@,
                        [idx |-> i,
                         out |-> IF pc = "cb_parallel"
                                 THEN buffer_geometry_helper(par.tasks[i])
                                 ELSE subtract_park_from_geom_helper(par.tasks[i])])]
    /\ UNCHANGED <<loaderVars, pc, op, createVars, subtractVars, mergeVars, buffer_gdf, ret, log>>

(* parallel_process returns: the results become the geometry column *)
cb_join ==
    /\ pc = "cb_parallel"
    /\ Len(par.done) = Len(par.tasks)
    /\ gas_lines_gdf' = set_geometry(gas_lines_gdf, parallel_process(par))
    /\ pc' = "cb_fix"
    /\ UNCHANGED <<loaderVars, par, op, input_gas_lines, buffer_distance_ft, buffer_distance_m,
                   use_multiprocessing, subtractVars, mergeVars, buffer_gdf, ret, log>>

(* repair and filter the buffers; return early when none is left *)
cb_fix ==
    /\ pc = "cb_fix"
    /\ LET kept == log_and_filter_invalid_geometries(
                      apply(gas_lines_gdf, fix_geometry), "Buffered Gas Lines")
       IN  /\ gas_lines_gdf' = kept
           /\ IF empty(kept)
              THEN pc' = "done" /\ ret' = Returned(kept)
              ELSE pc' = "cb_parks" /\ ret' = ret
    /\ UNCHANGED <<loaderVars, op, input_gas_lines, buffer_distance_ft, buffer_distance_m,
                   use_multiprocessing, subtractVars, mergeVars, buffer_gdf,
                   par, log>>

(* subtract the parks if a path is given: the call of subtract_parks_from_buffer *)
cb_parks ==
    /\ pc = "cb_parks"
    /\ IF parks_path # <<>>
       THEN /\ arg_buffer_gdf' = gas_lines_gdf
            /\ buffer_gdf' = gas_lines_gdf
            /\ subtract_multiprocessing' = FALSE
            /\ pc' = "sp_entry"
       ELSE /\ pc' = "cb_filter"
            /\ UNCHANGED <<arg_buffer_gdf, buffer_gdf, subtract_multiprocessing>>
    /\ UNCHANGED <<loaderVars, op, createVars, parks_path, parks_file, parks_gdf, mergeVars,
                   par, ret, log>>

(* the intersection filter, the cleaning and the final validation *)
cb_filter ==
    /\ pc = "cb_filter"
    /\ LET hit == filter(gas_lines_gdf,
                         LAMBDA g : buffer_intersects_gas_lines(g, gas_lines_gdf))
           final == filter(clean_geodataframe(hit),
                           LAMBDA g : is_valid(g) /\ ~is_empty(g))
       IN  /\ gas_lines_gdf' = final
           /\ ret' = Returned(final)
    /\ log' = Append(log, Event("intersection_filter", gas_lines_gdf.crs))
    /\ pc' = "done"
    /\ UNCHANGED <<loaderVars, op, input_gas_lines, buffer_distance_ft, buffer_distance_m,
                   use_multiprocessing, subtractVars, mergeVars, buffer_gdf, par>>

----------------------------------------------------------------------------
(* subtract_parks_from_buffer *)

subtract_parks_from_buffer ==
    /\ pc = "idle"
    /\ \E gdf \in BufferLayers, pp \in {<<>>, <<"parks.shp">>}, mp \in BOOLEAN :
          /\ arg_buffer_gdf' = gdf
          /\ buffer_gdf' = gdf
          /\ parks_path' = pp
          /\ subtract_multiprocessing' = mp
    /\ op' = "subtract_parks_from_buffer"
    /\ pc' = "sp_entry"
    /\ UNCHANGED <<loaderVars, createVars, parks_file, parks_gdf, mergeVars, par, ret, log>>

(* the return of subtract_parks_from_buffer, to create_buffer_with_geopandas
   when it made the call *)
sp_return(value) ==
    IF op = "create_buffer_with_geopandas"
    THEN /\ gas_lines_gdf' = value
         /\ pc' = "cb_filter"
         /\ ret' = ret
    ELSE /\ gas_lines_gdf' = gas_lines_gdf
         /\ pc' = "done"
         /\ ret' = Returned(value)

(* no parks path: the buffer is returned as it is *)
sp_none ==
    /\ pc = "sp_entry"
    /\ parks_path = <<>>
    /\ sp_return(buffer_gdf)
    /\ UNCHANGED <<loaderVars, op, input_gas_lines, buffer_distance_ft, buffer_distance_m,
                   use_multiprocessing, subtractVars, mergeVars, buffer_gdf,
                   par, log>>

allowed_park_types == {"Polygon", "MultiPolygon"}

(* the parks, repaired but with the invalid and empty ones left in *)
valid_parks_unfiltered(gdf, crs) ==
    apply(filter(filter(validate_and_reproject_crs(gdf, crs, "parks"),
                        LAMBDA g : g.kind \in allowed_park_types),
                 notnull),
          fix_geometry)

(* the parks in the buffers' CRS: the polygons among them, repaired, without
   the null, invalid and empty ones *)
valid_parks(gdf, crs) ==
    log_and_filter_invalid_geometries(
        apply(filter(filter(validate_and_reproject_crs(gdf, crs, "parks"),
                            LAMBDA g : g.kind \in allowed_park_types),
                     notnull),
              fix_geometry),
        "Parks")

(* read the parks; reproject, filter and repair them; repair the buffers *)
sp_prepare ==
    /\ pc = "sp_entry"
    /\ parks_path # <<>>
    /\ \E file \in ParkFiles :
          /\ parks_file' = file
          /\ parks_gdf' = valid_parks(file, buffer_gdf.crs)
    /\ buffer_gdf' =
          log_and_filter_invalid_geometries(
              apply(filter(buffer_gdf, notnull), fix_geometry), "Buffers")
    /\ log' = Append(log, Event("read_parks", buffer_gdf.crs))
    /\ pc' = "sp_subtract"
    /\ UNCHANGED <<loaderVars, op, createVars, parks_path, subtract_multiprocessing,
                   arg_buffer_gdf, mergeVars, par, ret>>

(* only the first park *)
first_park_geometry(gdf) ==
    IF empty(gdf) THEN <<>> ELSE <<gdf.rows[1].geom>>

(* parks_geoms: the list of the park geometries *)
park_geometries(gdf) == geometry(gdf)

(* args: one (geom, parks_geoms) tuple per buffer row, in row order *)
subtract_args(gdf, parks_geoms) ==
    [i \in 1..Len(gdf.rows) |-> <<gdf.rows[i].geom, parks_geoms>>]

(* the subtraction: the tasks are submitted, or every buffer is cut in turn *)
sp_subtract ==
    /\ pc = "sp_subtract"
    /\ log' = Append(log, Event("subtract", buffer_gdf.crs))
    /\ LET parks_geoms == park_geometries(parks_gdf)
       IN  IF subtract_multiprocessing
           THEN /\ par' = [tasks |-> subtract_args(buffer_gdf, parks_geoms),
                           done |-> <<>>]
                /\ pc' = "sp_parallel"
                /\ UNCHANGED buffer_gdf
           ELSE /\ buffer_gdf' =
                      apply(buffer_gdf,
                            LAMBDA geom : subtract_park_from_geom(geom, parks_geoms))
                /\ pc' = "sp_final"
                /\ UNCHANGED par
    /\ UNCHANGED <<loaderVars, op, createVars, subtractVars, mergeVars, ret>>

sp_join ==
    /\ pc = "sp_parallel"
    /\ Len(par.done) = Len(par.tasks)
    /\ buffer_gdf' = set_geometry(buffer_gdf, parallel_process(par))
    /\ pc' = "sp_final"
    /\ UNCHANGED <<loaderVars, par, op, createVars, subtractVars, mergeVars, ret, log>>

(* the repaired results, the empty ones included *)
subtracted_buffers_with_empty(gdf) ==
    filter(apply(gdf, fix_geometry), is_valid)

(* the results of the subtraction, repaired, the invalid and empty dropped *)
subtracted_buffers(gdf) ==
    filter(apply(gdf, fix_geometry), LAMBDA g : is_valid(g) /\ ~is_empty(g))

(* the final repair and filter, and the return *)
sp_final ==
    /\ pc = "sp_final"
    /\ LET final == subtracted_buffers(buffer_gdf)
       IN  /\ buffer_gdf' = final
           /\ sp_return(final)
    /\ UNCHANGED <<loaderVars, op, input_gas_lines, buffer_distance_ft, buffer_distance_m,
                   use_multiprocessing, subtractVars, mergeVars, par, log>>

----------------------------------------------------------------------------
(* merge_buffers_into_planning_file *)

merge_buffers_into_planning_file ==
    /\ pc = "idle"
    /\ \E crs \in OutputCRS, dist \in PointBufferDistances :
          /\ arg_output_crs' = crs
          /\ output_crs' = crs
          /\ point_buffer_distance' = dist
    /\ merges' = 1
    /\ op' = "merge_buffers_into_planning_file"
    /\ pc' = "mg_load"
    /\ UNCHANGED <<loaderVars, createVars, subtractVars, unique_output_buffer,
                   future_development_feature_class, planning_on_load,
                   future_dev_gdf, merged_gdf, buffer_gdf, par, ret, log>>

(* a second merge follows the first: the same call, made when the first has
   returned with the planning file written *)
merge_again ==
    /\ pc = "done"
    /\ op = "merge_buffers_into_planning_file"
    /\ ret.how = "return"
    /\ log # <<>> /\ log[Len(log)].ev = "write"
    /\ merges < MaxMerges
    /\ merges' = merges + 1
    /\ output_crs' = arg_output_crs
    /\ buffer_gdf' = NoDataset
    /\ future_dev_gdf' = NoDataset
    /\ merged_gdf' = NoDataset
    /\ ret' = NoReturn
    /\ log' = <<>>
    /\ pc' = "mg_load"
    /\ UNCHANGED <<loaderVars, op, createVars, subtractVars, unique_output_buffer,
                   future_development_feature_class, planning_on_load,
                   point_buffer_distance, arg_output_crs, par>>

(* what gpd.read_file finds at the two paths: any file at the first merge,
   the files as they stand at a later one *)
buffer_files ==
    IF merges <= 1 THEN MergeBufferFiles ELSE {unique_output_buffer}

planning_files ==
    IF merges <= 1 THEN PlanningFiles ELSE {future_development_feature_class}

(* read both layers and go on, whether the buffer layer has rows or not *)
mg_load_without_empty_check ==
    /\ pc = "mg_load"
    /\ \E buf \in buffer_files, plan \in planning_files :
          /\ unique_output_buffer' = buf
          /\ future_development_feature_class' = plan
          /\ planning_on_load' = plan
          /\ buffer_gdf' = buf
          /\ future_dev_gdf' = plan
    /\ pc' = "mg_crs"
    /\ UNCHANGED <<loaderVars, merges, op, createVars, subtractVars, point_buffer_distance,
                   arg_output_crs, output_crs, merged_gdf, par, ret, log>>

(* read both layers; an empty buffer layer returns the planning layer *)
mg_load ==
    /\ pc = "mg_load"
    /\ \E buf \in buffer_files, plan \in planning_files :
          /\ unique_output_buffer' = buf
          /\ future_development_feature_class' = plan
          /\ planning_on_load' = plan
          /\ buffer_gdf' = buf
          /\ future_dev_gdf' = plan
          /\ IF empty(buf)
             THEN pc' = "done" /\ ret' = Returned(plan)
             ELSE pc' = "mg_crs" /\ ret' = ret
    /\ UNCHANGED <<loaderVars, merges, op, createVars, subtractVars, point_buffer_distance,
                   arg_output_crs, output_crs, merged_gdf, par, log>>

(* the CRS resolution with the planning layer left in the CRS it has *)
resolve_crs_without_projection(buffer_layer, planning) ==
    LET future1 == IF planning.crs = NoCRS
                   THEN set_crs(planning, GEOGRAPHIC_CRS) ELSE planning
        buffer1 == IF buffer_layer.crs = NoCRS
                   THEN set_crs(buffer_layer, BUFFER_LAYER_CRS) ELSE buffer_layer
        buffer2 == validate_and_reproject_crs(buffer1, future1.crs, "Buffer layer")
    IN  [buffer_gdf |-> IF buffer2.crs # future1.crs
                        THEN to_crs(buffer2, future1.crs) ELSE buffer2,
         future_dev_gdf |-> future1]

(* the CRS resolution: a layer without CRS is given the default one, the
   buffer layer is brought to the planning layer's CRS, both layers are made
   projected and the buffer layer is reprojected if the CRSs still differ *)
resolve_crs(buffer_layer, planning) ==
    LET future1 == IF planning.crs = NoCRS
                   THEN set_crs(planning, GEOGRAPHIC_CRS) ELSE planning
        buffer1 == IF buffer_layer.crs = NoCRS
                   THEN set_crs(buffer_layer, BUFFER_LAYER_CRS) ELSE buffer_layer
        buffer2 == ensure_projected_crs(
                       validate_and_reproject_crs(buffer1, future1.crs, "Buffer layer"))
        future2 == ensure_projected_crs(future1)
    IN  [buffer_gdf |-> IF buffer2.crs # future2.crs
                        THEN to_crs(buffer2, future2.crs) ELSE buffer2,
         future_dev_gdf |-> future2]

(* assign the missing CRSs, bring the buffer layer to the planning layer's
   CRS, ensure both are projected *)
mg_crs ==
    /\ pc = "mg_crs"
    /\ future_dev_gdf' = resolve_crs(buffer_gdf, future_dev_gdf).future_dev_gdf
    /\ buffer_gdf' = resolve_crs(buffer_gdf, future_dev_gdf).buffer_gdf
    /\ pc' = "mg_kinds"
    /\ UNCHANGED <<loaderVars, merges, op, createVars, subtractVars, unique_output_buffer,
                   future_development_feature_class, planning_on_load,
                   point_buffer_distance,
                   arg_output_crs, output_crs, merged_gdf, par, ret, log>>

geom_types(gdf) == {gdf.rows[i].geom.kind : i \in 1..Len(gdf.rows)}

(* Point and LineString rows become polygons: buffered in EPSG:3857 and
   brought back to the original CRS *)
convert_to_polygons(gdf, dist) ==
    LET original_crs == gdf.crs
        projected == to_crs(gdf, WEB_MERCATOR)
        buffered == apply(projected, LAMBDA g : buffer(buffer(g, dist), 0))
        back == to_crs(buffered, original_crs)
    IN  [series |-> Dataset(back.crs, geometry(back)),
         original_crs |-> original_crs,
         buffered_in |-> projected.crs]

(* the checks without the one of mixed planning kinds *)
schema_error_unless_mixed(buffer_layer, planning) ==
    \/ ~(geom_types(buffer_layer) \subseteq {"Polygon", "MultiPolygon"})
    \/ (~empty(planning)
          /\ ~(geom_types(planning)
                  \subseteq {"Polygon", "MultiPolygon", "Point", "LineString"}))

(* the conditions under which the merge raises ValueError: a buffer geometry
   that is no polygon, mixed planning kinds, an unsupported planning kind *)
schema_error(buffer_layer, planning) ==
    \/ ~(geom_types(buffer_layer) \subseteq {"Polygon", "MultiPolygon"})
    \/ (~empty(planning) /\ Cardinality(geom_types(planning)) # 1)
    \/ (~empty(planning)
          /\ ~(geom_types(planning)
                  \subseteq {"Polygon", "MultiPolygon", "Point", "LineString"}))

(* the geometry kinds are checked; a Point or LineString planning layer is
   converted to polygons *)
mg_kinds ==
    /\ pc = "mg_kinds"
    /\ LET kinds == geom_types(future_dev_gdf)
           convert == /\ ~empty(future_dev_gdf)
                      /\ kinds \subseteq {"Point", "LineString"}
                      /\ Cardinality(kinds) = 1
       IN  IF schema_error(buffer_gdf, future_dev_gdf)
           THEN /\ pc' = "done"
                /\ ret' = Raised
                /\ UNCHANGED <<future_dev_gdf, log>>
           ELSE /\ pc' = "mg_clean"
                /\ ret' = ret
                /\ IF convert
                   THEN LET conv == convert_to_polygons(future_dev_gdf,
                                                        point_buffer_distance)
                        IN  /\ future_dev_gdf' =
                                  set_geometry(set_crs(future_dev_gdf, conv.series.crs),
                                               conv.series.rows)
                            /\ log' = log \o <<Event("convert", conv.original_crs),
                                                Event("buffer", conv.buffered_in)>>
                   ELSE UNCHANGED <<future_dev_gdf, log>>
    /\ UNCHANGED <<loaderVars, merges, op, createVars, subtractVars, unique_output_buffer,
                   future_development_feature_class, planning_on_load,
                   point_buffer_distance,
                   arg_output_crs, output_crs, merged_gdf, buffer_gdf, par>>

(* repair the geometries of both layers and drop the null, invalid and empty *)
mg_clean ==
    /\ pc = "mg_clean"
    /\ future_dev_gdf' =
          filter(apply(future_dev_gdf, fix_geometry),
                 LAMBDA g : notnull(g) /\ is_valid(g) /\ ~is_empty(g))
    /\ buffer_gdf' =
          filter(apply(buffer_gdf, fix_geometry),
                 LAMBDA g : notnull(g) /\ is_valid(g) /\ ~is_empty(g))
    /\ log' = Append(log, Event("clean", future_dev_gdf.crs))
    /\ pc' = "mg_concat"
    /\ UNCHANGED <<loaderVars, merges, op, createVars, subtractVars, unique_output_buffer,
                   future_development_feature_class, planning_on_load,
                   point_buffer_distance,
                   arg_output_crs, output_crs, merged_gdf, par, ret>>

(* pd.concat of the non-empty frames: it raises ValueError when there is none *)
mg_concat ==
    /\ pc = "mg_concat"
    /\ LET frames == SelectSeq(<<future_dev_gdf, buffer_gdf>>, LAMBDA df : ~empty(df))
       IN  IF frames = <<>>
           THEN /\ pc' = "done"
                /\ ret' = Raised
                /\ UNCHANGED merged_gdf
           ELSE /\ merged_gdf' =
                      Dataset(future_dev_gdf.crs,
                              IF Len(frames) = 1 THEN frames[1].rows
                              ELSE frames[1].rows \o frames[2].rows)
                /\ pc' = "mg_outcrs"
                /\ ret' = ret
    /\ UNCHANGED <<loaderVars, merges, op, createVars, subtractVars, unique_output_buffer,
                   future_development_feature_class, planning_on_load,
                   point_buffer_distance,
                   arg_output_crs, output_crs, future_dev_gdf, buffer_gdf, par, log>>

(* the merged dataset left in the planning layer's CRS *)
merged_as_concatenated(gdf, crs) == gdf

(* merged_gdf.to_crs(output_crs) *)
reproject_merged(gdf, crs) == to_crs(gdf, crs)

(* the CRS of the layers whatever the caller asked for *)
resolve_output_crs_without_argument(arg, buffer_layer, planning) ==
    IF ~empty(buffer_layer) THEN buffer_layer.crs ELSE planning.crs

(* output_crs when given, else buffer_gdf.crs if buffer_gdf has rows, else
   future_dev_gdf.crs: the layers are the local ones, as they stand after
   the CRS resolution and the cleaning *)
resolve_output_crs(arg, buffer_layer, planning) ==
    IF arg = <<>>
    THEN (IF ~empty(buffer_layer) THEN buffer_layer.crs ELSE planning.crs)
    ELSE arg[1]

(* the output CRS is resolved and the merged dataset reprojected to it *)
mg_outcrs ==
    /\ pc = "mg_outcrs"
    /\ LET crs == resolve_output_crs(output_crs, buffer_gdf, future_dev_gdf)
       IN  /\ output_crs' = <<crs>>
           /\ merged_gdf' = reproject_merged(merged_gdf, crs)
    /\ pc' = "mg_persist"
    /\ UNCHANGED <<loaderVars, merges, op, createVars, subtractVars, unique_output_buffer,
                   future_development_feature_class, planning_on_load,
                   point_buffer_distance,
                   arg_output_crs, future_dev_gdf, buffer_gdf, par, ret, log>>

(* an empty merged dataset is returned without a write; otherwise the planning
   file is overwritten *)
mg_persist ==
    /\ pc = "mg_persist"
    /\ IF empty(merged_gdf)
       THEN /\ ret' = Returned(Dataset(future_dev_gdf.crs, <<>>))
            /\ UNCHANGED <<future_development_feature_class, log>>
       ELSE /\ future_development_feature_class' = merged_gdf
            /\ log' = Append(log, Event("write", merged_gdf.crs))
            /\ ret' = Returned(merged_gdf)
    /\ pc' = "done"
    /\ UNCHANGED <<loaderVars, merges, op, createVars, subtractVars, unique_output_buffer,
                   planning_on_load, point_buffer_distance, arg_output_crs,
                   output_crs, future_dev_gdf, merged_gdf, buffer_gdf, par>>

----------------------------------------------------------------------------
(* data_loader.py: create_pipeline_features *)

MaxCalls == 2
MaxReports == 2

SCHEMA_FIELDS == <<"Name", "Date", "PSI", "Material", "geometry">>

spatial_reference == "EPSG:4326"

(* a GeoJSON report: its file name, the columns and the Name of each row *)
GeoJSONReports ==
    { [name |-> "r1.geojson", columns |-> {"Name", "Date", "PSI", "Material", "geometry"},
       rows |-> <<"P1", "P2">>],
      [name |-> "r1.geojson", columns |-> {"Name", "geometry"}, rows |-> <<"P1">>],
      [name |-> "r2.geojson", columns |-> {"Name", "Date", "PSI", "Material", "geometry"},
       rows |-> <<"P1">>] }

(* a line of a TXT report, as its whitespace-separated fields *)
HeaderLine == <<"Id", "Name", "X", "Y", "Date", "PSI", "Material">>

PipelineLine(name) == <<"1", name, "10", "20", "2024-01-01", "50", "Steel">>

ShortLine == <<"2", "P4">>

BadNumberLine == <<"3", "P5", "east", "20", "2024-01-01", "50", "Steel">>

TxtReports ==
    { [name |-> "r1.txt",
       lines |-> <<HeaderLine, PipelineLine("P1"), ShortLine, BadNumberLine,
                   PipelineLine("P3"), PipelineLine("P3")>>],
      [name |-> "r2.txt", lines |-> <<PipelineLine("P2")>>] }

(* str.lower on the materials of the reports *)
lower(material) == IF material = "Steel" THEN "steel" ELSE material

(* float(field) succeeds *)
is_float(field) == field \in {"1", "2", "3", "10", "20", "50"}

(* "Id Name" in line *)
is_header(line) ==
    \E i \in 1..(Len(line) - 1) : line[i] = "Id" /\ line[i + 1] = "Name"

(* the fields of a line that is not skipped: <<>> for a header, a line of
   fewer than 7 fields and a line whose numbers do not parse *)
parse_line(line) ==
    IF is_header(line) \/ Len(line) < 7 THEN <<>>
    ELSE IF ~(is_float(line[3]) /\ is_float(line[4]) /\ is_float(line[6])) THEN <<>>
    ELSE <<[line_name |-> line[2], material |-> lower(line[7])]>>

make_feature(name, material, crs) ==
    [Name |-> name, Material |-> lower(material), crs |-> crs]

(* a row appended to the feature set and an upsert request, with the report
   and the call they come from *)
Appended(feature, report_name) ==
    [feature |-> feature, report |-> report_name, call |-> calls]

Upsert(name, material, report_name) ==
    [Name |-> name, Material |-> material, report |-> report_name, call |-> calls]

(* the report is processed whatever the set holds *)
never_processed(report_name, processed) == FALSE

(* report_name in processed_reports *)
already_processed(report_name, processed) == report_name \in processed

(* the loop over the rows of a GeoJSON report *)
RECURSIVE geojson_rows(_, _, _)
geojson_rows(names, acc, report_name) ==
    IF names = <<>> THEN acc
    ELSE LET new_feature == make_feature(Head(names), "Steel", spatial_reference)
             sent == IF use_mongodb /\ gas_lines_collection # <<>>
                     THEN <<Upsert(Head(names), "Steel", report_name)>> ELSE <<>>
         IN  geojson_rows(Tail(names),
                          [rows |-> Append(acc.rows, Appended(new_feature, report_name)),
                           upserts |-> acc.upserts \o sent,
                           pipelines |-> acc.pipelines \cup {Head(names)},
                           added |-> TRUE],
                          report_name)

(* the loop over the lines of a TXT report *)
RECURSIVE txt_lines(_, _, _)
txt_lines(lines, acc, report_name) ==
    IF lines = <<>> THEN acc
    ELSE LET data == parse_line(Head(lines))
         IN  IF data = <<>> \/ data[1].line_name \in acc.pipelines
             THEN txt_lines(Tail(lines), acc, report_name)
             ELSE LET new_feature == make_feature(data[1].line_name, data[1].material,
                                                  spatial_reference)
                      sent == IF use_mongodb /\ gas_lines_collection # <<>>
                              THEN <<Upsert(data[1].line_name, data[1].material,
                                            report_name)>>
                              ELSE <<>>
                  IN  txt_lines(Tail(lines),
                                [rows |-> Append(acc.rows,
                                                 Appended(new_feature, report_name)),
                                 upserts |-> acc.upserts \o sent,
                                 pipelines |-> acc.pipelines \cup {data[1].line_name},
                                 added |-> TRUE],
                                report_name)

(* the rows, requests, names and flag as they stand before a report *)
loop_state ==
    [rows |-> features_gdf.rows, upserts |-> upserts,
     pipelines |-> processed_pipelines, added |-> features_added]

(* the call: processed_reports is the set the previous call returned, the
   empty set at the first call; the feature set is brought to
   spatial_reference *)
create_pipeline_features ==
    /\ pc = "idle" \/ (pc = "done" /\ op = "create_pipeline_features")
    /\ calls < MaxCalls
    /\ \E gj \in SeqsUpTo(GeoJSONReports, MaxReports), tx \in SeqsUpTo(TxtReports, 1),
          um \in BOOLEAN, coll \in {<<>>, <<"gas_lines">>} :
          /\ calls > 0 => (um = use_mongodb /\ coll = gas_lines_collection)
          /\ geojson_reports' = gj
          /\ txt_reports' = tx
          /\ use_mongodb' = um
          /\ gas_lines_collection' = coll
    /\ processed_pipelines' = {}
    /\ features_added' = FALSE
    /\ features_gdf' = IF features_gdf.crs # NoCRS /\ features_gdf.crs # spatial_reference
                       THEN to_crs(features_gdf, spatial_reference)
                       ELSE features_gdf
    /\ report_idx' = 1
    /\ calls' = calls + 1
    /\ op' = "create_pipeline_features"
    /\ pc' = "lp_geojson"
    /\ UNCHANGED <<bufferVars, processed_reports, upserts>>

(* one GeoJSON report: skipped when already processed, marked processed
   without rows when a required field is missing, else its rows are added *)
process_geojson_report ==
    /\ pc = "lp_geojson"
    /\ report_idx <= Len(geojson_reports)
    /\ LET report == geojson_reports[report_idx]
           required_fields == {SCHEMA_FIELDS[i] : i \in 1..Len(SCHEMA_FIELDS)}
                                  \ {"geometry"}
           missing_fields == required_fields \ report.columns
           acc == geojson_rows(report.rows, loop_state, report.name)
       IN  IF already_processed(report.name, processed_reports)
           THEN UNCHANGED <<processed_reports, processed_pipelines, features_gdf,
                            features_added, upserts>>
           ELSE IF missing_fields # {}
           THEN /\ processed_reports' = processed_reports \cup {report.name}
                /\ UNCHANGED <<processed_pipelines, features_gdf, features_added,
                               upserts>>
           ELSE /\ features_gdf' = [features_gdf EXCEPT !.rows = acc.rows]
                /\ upserts' = acc.upserts
                /\ processed_pipelines' = acc.pipelines
                /\ features_added' = acc.added
                /\ processed_reports' = processed_reports \cup {report.name}
    /\ report_idx' = report_idx + 1
    /\ UNCHANGED <<pc, op, bufferVars, geojson_reports, txt_reports, use_mongodb,
                   gas_lines_collection, calls>>

(* the GeoJSON loop is over *)
lp_txt ==
    /\ pc = "lp_geojson"
    /\ report_idx > Len(geojson_reports)
    /\ pc' = "lp_txt"
    /\ report_idx' = 1
    /\ UNCHANGED <<op, bufferVars, geojson_reports, txt_reports, use_mongodb,
                   gas_lines_collection, processed_reports, processed_pipelines,
                   features_gdf, features_added, upserts, calls>>

(* one TXT report: skipped when already processed, else its lines are added *)
process_txt_report ==
    /\ pc = "lp_txt"
    /\ report_idx <= Len(txt_reports)
    /\ LET report == txt_reports[report_idx]
           acc == txt_lines(report.lines, loop_state, report.name)
       IN  IF already_processed(report.name, processed_reports)
           THEN UNCHANGED <<processed_reports, processed_pipelines, features_gdf,
                            features_added, upserts>>
           ELSE /\ features_gdf' = [features_gdf EXCEPT !.rows = acc.rows]
                /\ upserts' = acc.upserts
                /\ processed_pipelines' = acc.pipelines
                /\ features_added' = acc.added
                /\ processed_reports' = processed_reports \cup {report.name}
    /\ report_idx' = report_idx + 1
    /\ UNCHANGED <<pc, op, bufferVars, geojson_reports, txt_reports, use_mongodb,
                   gas_lines_collection, calls>>

(* return processed_reports, gas_lines_gdf, features_added *)
lp_return ==
    /\ pc = "lp_txt"
    /\ report_idx > Len(txt_reports)
    /\ pc' = "done"
    /\ UNCHANGED <<op, bufferVars, loaderVars>>

NextLoader ==
    \/ create_pipeline_features
    \/ process_geojson_report
    \/ lp_txt
    \/ process_txt_report
    \/ lp_return

SpecLoader == Init /\ [][NextLoader]_vars

----------------------------------------------------------------------------
Next ==
    \/ create_buffer_with_geopandas
    \/ cb_read
    \/ cb_validate
    \/ cb_buffer
    \/ cb_join
    \/ cb_fix
    \/ cb_parks
    \/ cb_filter
    \/ subtract_parks_from_buffer
    \/ sp_none
    \/ sp_prepare
    \/ sp_subtract
    \/ sp_join
    \/ sp_final
    \/ worker
    \/ merge_buffers_into_planning_file
    \/ merge_again
    \/ mg_load
    \/ mg_crs
    \/ mg_kinds
    \/ mg_clean
    \/ mg_concat
    \/ mg_outcrs
    \/ mg_persist

Spec == Init /\ [][Next]_vars

----------------------------------------------------------------------------
(* Properties *)

Did(ev) == \E i \in 1..Len(log) : log[i].ev = ev

Merging == op = "merge_buffers_into_planning_file" /\ pc \notin {"idle", "mg_load"}

Creating == op = "create_buffer_with_geopandas" /\ pc \notin {"idle", "cb_read"}

polygon_types == {"Polygon", "MultiPolygon"}

(* the geometry is a polygon that is valid, or can be repaired, and not empty *)
UsablePolygon(g) ==
    g.kind \in polygon_types /\ g.ok \in {"valid", "repairable"} /\ g.cells # {}

GoodGeometry(g) == notnull(g) /\ is_valid(g) /\ ~is_empty(g)

(* C1: in merge_buffers_into_planning_file, when the loaded buffer layer has
   no rows the call returns the planning layer exactly as loaded and the
   planning file is never written, whatever the planning layer and the
   output_crs argument are. *)
C1_EmptyBufferLeavesPlanningUnchanged ==
    (Merging /\ empty(unique_output_buffer)) =>
        /\ pc = "done"
        /\ ret = Returned(planning_on_load)
        /\ future_development_feature_class = planning_on_load
        /\ ~Did("write")

C1_Witness ==
    /\ Merging /\ pc = "done"
    /\ empty(unique_output_buffer)
    /\ Len(planning_on_load.rows) = 2
    /\ arg_output_crs = <<"EPSG:3857">>
    /\ ret.how = "return"

(* the hard schema violations of the loaded layers *)
NonPolygonBuffer ==
    \E i \in 1..Len(unique_output_buffer.rows) :
        unique_output_buffer.rows[i].geom.kind \notin polygon_types

MixedPlanning ==
    /\ ~empty(planning_on_load)
    /\ Cardinality(geom_types(planning_on_load)) # 1

UnsupportedPlanning ==
    /\ ~empty(planning_on_load)
    /\ Cardinality(geom_types(planning_on_load)) = 1
    /\ ~(geom_types(planning_on_load)
            \subseteq {"Polygon", "MultiPolygon", "Point", "LineString"})

(* C2: in merge_buffers_into_planning_file with a non-empty buffer layer, a
   buffer layer with a geometry that is not a polygon, a planning layer of
   mixed geometry kinds and a planning layer of a uniform unsupported kind
   each end the call with a raised error, and the planning file is not
   written. *)
C2_SchemaViolationRaisesWithoutWrite ==
    (/\ Merging
     /\ ~empty(unique_output_buffer)
     /\ (NonPolygonBuffer \/ MixedPlanning \/ UnsupportedPlanning)) =>
        /\ ~Did("write")
        /\ future_development_feature_class = planning_on_load
        /\ pc \in {"mg_crs", "mg_kinds", "done"}
        /\ pc = "done" => ret = Raised

C2_Witness ==
    /\ Merging /\ pc = "done"
    /\ ret = Raised
    /\ ~NonPolygonBuffer
    /\ geom_types(planning_on_load) = {"Polygon", "LineString"}

(* C3: in merge_buffers_into_planning_file, when the buffer layer was not
   empty on load and no planning row and no buffer row survives the
   cleaning, the call returns normally an empty result and writes nothing. *)
C3_EmptyMergeReturnsEmptyResult ==
    (/\ Merging /\ pc = "done"
     /\ Did("clean")
     /\ empty(future_dev_gdf) /\ empty(buffer_gdf)) =>
        /\ ret.how = "return"
        /\ empty(ret.value)
        /\ ~Did("write")

(* C4: every row returned by create_buffer_with_geopandas has a geometry
   that intersects a geometry of the source dataset as it was before
   buffering. *)
C4_ResultIntersectsSource ==
    (Creating /\ pc = "done" /\ ret.how = "return") =>
        \A i \in 1..Len(ret.value.rows) :
            buffer_intersects_gas_lines(ret.value.rows[i].geom, input_gas_lines)

(* C5: in merge_buffers_into_planning_file, with an empty planning layer and
   a buffer layer of valid, non-empty polygons, the dataset returned and the
   dataset written to the planning file are the buffer layer's rows, in
   order, in the resolved output CRS: the output_crs argument if given, else
   the CRS of the buffer layer. *)
C5_EmptyPlanningGivesBufferRows ==
    (/\ Merging /\ pc = "done"
     /\ empty(planning_on_load)
     /\ ~empty(unique_output_buffer)
     /\ \A i \in 1..Len(unique_output_buffer.rows) :
            /\ unique_output_buffer.rows[i].geom.kind \in polygon_types
            /\ GoodGeometry(unique_output_buffer.rows[i].geom)) =>
        LET resolved == IF arg_output_crs # <<>> THEN arg_output_crs[1]
                        ELSE buffer_gdf.crs
        IN  /\ ret = Returned(Dataset(resolved, unique_output_buffer.rows))
            /\ future_development_feature_class =
                   Dataset(resolved, unique_output_buffer.rows)
            /\ resolved # NoCRS

C5_Witness ==
    /\ Merging /\ pc = "done"
    /\ empty(planning_on_load)
    /\ planning_on_load.crs = NoCRS
    /\ unique_output_buffer.crs = "EPSG:32610"
    /\ Len(unique_output_buffer.rows) = 2
    /\ arg_output_crs = <<"EPSG:3857">>
    /\ ret = Returned(Dataset("EPSG:3857", unique_output_buffer.rows))
    /\ Did("write")

(* C6: every row returned by create_buffer_with_geopandas, and by
   subtract_parks_from_buffer when a parks path is given, has a geometry
   that is not null, valid and not empty. *)
C6_ReturnedGeometriesAreGood ==
    (/\ pc = "done" /\ ret.how = "return"
     /\ \/ op = "create_buffer_with_geopandas"
        \/ (op = "subtract_parks_from_buffer" /\ parks_path # <<>>)) =>
        \A i \in 1..Len(ret.value.rows) : GoodGeometry(ret.value.rows[i].geom)

C6_Witness ==
    /\ pc = "done" /\ ret.how = "return"
    /\ op = "subtract_parks_from_buffer" /\ parks_path # <<>>
    /\ subtract_multiprocessing
    /\ Len(arg_buffer_gdf.rows) = 2
    /\ Len(ret.value.rows) = 1
    /\ \E i \in 1..2 : ~GoodGeometry(arg_buffer_gdf.rows[i].geom)
    /\ ret.value.rows[1].geom # arg_buffer_gdf.rows[ret.value.rows[1].fid].geom

(* C7: buffering by a distance is only performed on a dataset whose CRS is
   set and projected; the Point or LineString planning layer of a merge is
   buffered in the metric projection EPSG:3857 and is back in its CRS of
   before the conversion afterwards. *)
C7_BufferingOnlyInProjectedCRS ==
    /\ \A i \in 1..Len(log) :
          log[i].ev = "buffer" => (log[i].crs # NoCRS /\ is_projected(log[i].crs))
    /\ \A i \in 1..Len(log) :
          log[i].ev = "convert" =>
              /\ log[i + 1] = Event("buffer", WEB_MERCATOR)
              /\ future_dev_gdf.crs = log[i].crs

C7_Witness ==
    /\ Creating
    /\ input_gas_lines.crs = NoCRS
    /\ Did("buffer")
    /\ pc = "done"
    /\ ~empty(ret.value)

(* the cells covered by the exclusion geometries that subtraction uses *)
ParkCells ==
    UNION { parks_file.rows[i].geom.cells :
              i \in { k \in 1..Len(parks_file.rows) :
                        UsablePolygon(parks_file.rows[k].geom) } }

(* C8: subtract_parks_from_buffer, given valid, non-empty polygons and an
   exclusion dataset without a valid polygon after filtering, returns the
   same rows in the same order with the same geometries, in sequential and
   in parallel mode. *)
C8_NoExclusionLeavesBufferUnchanged ==
    (/\ op = "subtract_parks_from_buffer" /\ pc = "done"
     /\ parks_path # <<>>
     /\ \A i \in 1..Len(parks_file.rows) : ~UsablePolygon(parks_file.rows[i].geom)
     /\ \A i \in 1..Len(arg_buffer_gdf.rows) :
            /\ arg_buffer_gdf.rows[i].geom.kind \in polygon_types
            /\ GoodGeometry(arg_buffer_gdf.rows[i].geom)) =>
        ret = Returned(arg_buffer_gdf)

C8_Witness ==
    /\ op = "subtract_parks_from_buffer" /\ pc = "done"
    /\ parks_path # <<>>
    /\ subtract_multiprocessing
    /\ Len(parks_file.rows) = 2
    /\ \A i \in 1..Len(parks_file.rows) : ~UsablePolygon(parks_file.rows[i].geom)
    /\ Len(arg_buffer_gdf.rows) = 2
    /\ ret = Returned(arg_buffer_gdf)

(* C9: after subtraction the geometry of a buffer row is the row's geometry
   minus every exclusion geometry; a row wholly covered by the exclusion
   geometries is absent from the result of subtract_parks_from_buffer and of
   create_buffer_with_geopandas, and a row not wholly covered remains. *)
C9_SubtractionRemovesCoveredRows ==
    (pc = "done" /\ ret.how = "return" /\ Did("subtract")) =>
        /\ \A i \in 1..Len(arg_buffer_gdf.rows) :
              UsablePolygon(arg_buffer_gdf.rows[i].geom) =>
                  ((\E j \in 1..Len(ret.value.rows) :
                        ret.value.rows[j].fid = arg_buffer_gdf.rows[i].fid)
                      <=> ~(arg_buffer_gdf.rows[i].geom.cells \subseteq ParkCells))
        /\ \A j \in 1..Len(ret.value.rows) :
              \E i \in 1..Len(arg_buffer_gdf.rows) :
                  /\ arg_buffer_gdf.rows[i].fid = ret.value.rows[j].fid
                  /\ ret.value.rows[j].geom.cells =
                         arg_buffer_gdf.rows[i].geom.cells \ ParkCells

C9_Witness ==
    /\ Creating /\ pc = "done" /\ ret.how = "return" /\ Did("subtract")
    /\ Len(arg_buffer_gdf.rows) = 2
    /\ Len(parks_file.rows) = 2
    /\ \A k \in 1..2 : ~(arg_buffer_gdf.rows[1].geom.cells
                            \subseteq parks_file.rows[k].geom.cells)
    /\ arg_buffer_gdf.rows[1].geom.cells \subseteq ParkCells
    /\ Len(ret.value.rows) = 1
    /\ ret.value.rows[1].fid = arg_buffer_gdf.rows[2].fid

(* no row of the source dataset passes the kind filter and the
   invalid-geometry filter *)
NoSourceRowSurvives ==
    \A i \in 1..Len(input_gas_lines.rows) :
        ~(/\ input_gas_lines.rows[i].geom.kind \in allowed_geom_types
          /\ GoodGeometry(input_gas_lines.rows[i].geom))

(* C10: in create_buffer_with_geopandas, when no source row survives the
   kind filter and the invalid-geometry filter the call returns the empty
   dataset at once: nothing is buffered, no parks file is read, nothing is
   subtracted and no intersection filter is run. *)
C10_EmptySourceReturnsAtOnce ==
    (Creating /\ NoSourceRowSurvives) =>
        /\ pc \in {"cb_validate", "done"}
        /\ log = <<>>
        /\ par = NoBatch
        /\ parks_file = NoDataset
        /\ pc = "done" => (ret.how = "return" /\ empty(ret.value))

C10_Witness ==
    /\ Creating /\ NoSourceRowSurvives
    /\ pc = "done"
    /\ Len(input_gas_lines.rows) = 2
    /\ parks_path # <<>>
    /\ use_multiprocessing
    /\ ret.how = "return"

(* C11: in parallel mode the geometry stored in row i after buffering and
   after subtraction is the result of the task submitted for row i, in
   whatever order the tasks finished: the step that stores the results of
   the batch leaves the dataset that sequential mode leaves. *)
C11_ParallelKeepsRowAlignment ==
    [][/\ (pc = "cb_parallel" /\ pc' = "cb_fix") =>
            gas_lines_gdf' =
                apply(gas_lines_gdf, LAMBDA g : buffer(g, buffer_distance_m))
       /\ (pc = "sp_parallel" /\ pc' = "sp_final") =>
            buffer_gdf' =
                apply(buffer_gdf,
                      LAMBDA g : subtract_park_from_geom(g, park_geometries(parks_gdf)))
      ]_vars

C11_Witness ==
    /\ Creating /\ pc = "cb_fix"
    /\ use_multiprocessing
    /\ Len(par.done) = 2
    /\ par.done[1].idx = 2
    /\ par.tasks[1][1] # par.tasks[2][1]
    /\ gas_lines_gdf.rows[1].geom # gas_lines_gdf.rows[2].geom
    /\ gas_lines_gdf.rows[1].geom = buffer(par.tasks[1][1], buffer_distance_m)

(* the CRS of a layer as read from its file, the default when it has none *)
crs_as_loaded(gdf, default) == IF gdf.crs = NoCRS THEN default ELSE gdf.crs

(* the CRS both layers are in after the CRS resolution: the planning
   layer's, the geographic default when it has none, made projected *)
HarmonisedCRS ==
    ensure_projected_crs(
        set_crs(planning_on_load, crs_as_loaded(planning_on_load, GEOGRAPHIC_CRS))).crs

(* C12, read on the layers as loaded: the merged dataset returned and written is in the
   output_crs argument when one is given, else in the CRS of the buffer
   layer when buffer rows survive, else in the CRS of the planning layer,
   the layers being the ones the call was given. *)
C12_OutputCRSIsLoadedLayerCRS ==
    (Merging /\ pc = "done" /\ Did("write")) =>
        LET expected ==
                IF arg_output_crs # <<>> THEN arg_output_crs[1]
                ELSE IF ~empty(buffer_gdf)
                     THEN crs_as_loaded(unique_output_buffer, BUFFER_LAYER_CRS)
                     ELSE crs_as_loaded(planning_on_load, GEOGRAPHIC_CRS)
        IN  /\ ret.value.crs = expected
            /\ future_development_feature_class.crs = expected

(* C12, read on the layers after CRS resolution: the merged dataset returned and written is in the
   output_crs argument when one is given; otherwise it is in the CRS that
   both layers share after the CRS resolution, which is the planning
   layer's CRS (the geographic default when unset) made projected, whether
   buffer rows survive or not and whatever CRS the buffer file has. *)
C12_OutputCRSIsArgumentOrHarmonisedCRS ==
    (Merging /\ pc = "done" /\ Did("write")) =>
        LET expected == IF arg_output_crs # <<>> THEN arg_output_crs[1]
                        ELSE HarmonisedCRS
        IN  /\ ret.value.crs = expected
            /\ future_development_feature_class.crs = expected
            /\ buffer_gdf.crs = HarmonisedCRS
            /\ future_dev_gdf.crs = HarmonisedCRS

C12_Witness ==
    /\ Merging /\ pc = "done" /\ Did("write")
    /\ arg_output_crs = <<>>
    /\ ~empty(buffer_gdf)
    /\ unique_output_buffer.crs = "EPSG:32610"
    /\ planning_on_load.crs = "EPSG:4326"
    /\ ~empty(planning_on_load)
    /\ ret.value.crs = PROJECTED_CRS
    /\ ret.value.crs # unique_output_buffer.crs

(* the calls in which a report added a row or sent an upsert request *)
ContributingCalls(report_name) ==
    {features_gdf.rows[i].call :
        i \in {k \in 1..Len(features_gdf.rows) :
                 features_gdf.rows[k].report = report_name}}
    \cup {upserts[i].call :
            i \in {k \in 1..Len(upserts) : upserts[k].report = report_name}}

ReportNames == {"r1.geojson", "r2.geojson", "r1.txt", "r2.txt"}

PassedNames ==
    {geojson_reports[i].name : i \in 1..Len(geojson_reports)}
    \cup {txt_reports[i].name : i \in 1..Len(txt_reports)}

(* the report the loop is at *)
CurrentReportName ==
    IF pc = "lp_geojson" THEN geojson_reports[report_idx].name
    ELSE txt_reports[report_idx].name

InReportLoop ==
    \/ pc = "lp_geojson" /\ report_idx <= Len(geojson_reports)
    \/ pc = "lp_txt" /\ report_idx <= Len(txt_reports)

(* C13: over a sequence of create_pipeline_features calls, each given the
   processed_reports set the previous one returned, a report adds rows and
   sends upsert requests in at most one call; the step at a report whose
   name is already in processed_reports adds no row and sends no request;
   and every report name passed to a call is in the set the call returns. *)
C13_ProcessedReportsPreventReprocessing ==
    /\ [](\A name \in ReportNames : Cardinality(ContributingCalls(name)) <= 1)
    /\ []((op = "create_pipeline_features" /\ pc = "done") =>
              PassedNames \subseteq processed_reports)
    /\ [][(InReportLoop /\ CurrentReportName \in processed_reports) =>
              (features_gdf' = features_gdf /\ upserts' = upserts)]_vars

C13_Witness ==
    /\ op = "create_pipeline_features" /\ pc = "done"
    /\ calls = 2
    /\ \E i \in 1..Len(geojson_reports) :
          /\ geojson_reports[i].name = "r1.geojson"
          /\ geojson_reports[i].rows = <<"P1", "P2">>
    /\ ContributingCalls("r1.geojson") = {1}
    /\ \E i \in 1..Len(upserts) : upserts[i].report = "r1.geojson"
    /\ ContributingCalls("r2.txt") = {2}

(* C14: in merge_buffers_into_planning_file with a buffer layer that has
   rows, from the check of the geometry kinds to the concatenation both
   layers have a CRS, both CRSs are projected and the two are the same,
   whatever CRS, or none, the two files have. *)
C14_LayersShareProjectedCRS ==
    (Merging /\ pc \in {"mg_kinds", "mg_clean", "mg_concat"}) =>
        /\ buffer_gdf.crs # NoCRS
        /\ future_dev_gdf.crs # NoCRS
        /\ is_projected(buffer_gdf.crs)
        /\ is_projected(future_dev_gdf.crs)
        /\ ~is_geographic(buffer_gdf.crs)
        /\ buffer_gdf.crs = future_dev_gdf.crs

C14_Witness ==
    /\ Merging /\ pc = "mg_concat"
    /\ unique_output_buffer.crs = NoCRS
    /\ planning_on_load.crs = "EPSG:4326"
    /\ ~empty(buffer_gdf) /\ ~empty(future_dev_gdf)
    /\ buffer_gdf.crs = PROJECTED_CRS
    /\ future_dev_gdf.crs = PROJECTED_CRS

(* the rows of a layer that are left after repair and cleaning *)
Surviving(gdf) ==
    filter(apply(gdf, fix_geometry), LAMBDA g : GoodGeometry(g))

(* the number of rows of the dataset that come from the buffer layer *)
BufferRowCount(gdf) ==
    Cardinality({i \in 1..Len(gdf.rows) : gdf.rows[i].layer = "buffer"})

(* C15: the merged dataset of merge_buffers_into_planning_file is the
   surviving planning rows followed by the surviving buffer rows, as many
   rows as the two together, none dropped for being equal to another; and a
   second merge of the same buffer file into the same planning file
   completes and leaves the buffer rows in the file twice. *)
C15_MergeAppendsBufferRows ==
    /\ (Merging /\ pc = "done" /\ Did("write")) =>
          /\ buffer_gdf.rows = Surviving(unique_output_buffer).rows
          /\ ret.value.rows = future_dev_gdf.rows \o buffer_gdf.rows
          /\ Len(ret.value.rows) = Len(future_dev_gdf.rows) + Len(buffer_gdf.rows)
          /\ future_development_feature_class.rows = ret.value.rows
    /\ (Merging /\ pc = "done" /\ merges = 2) =>
          /\ ret.how = "return"
          /\ BufferRowCount(future_development_feature_class) =
                 2 * Len(Surviving(unique_output_buffer).rows)

(* the positions of the writes of the planning file in the log of the call *)
Writes == {i \in 1..Len(log) : log[i].ev = "write"}

(* C16: in a call of merge_buffers_into_planning_file the planning file is
   written at most once, as the last step: after the empty check, the CRS
   resolution, the checks of the geometry kinds, the cleaning, the
   concatenation and the reprojection to the output CRS, and only by a call
   that returns.  Until then, and for good in a call that raises, the file
   is as it was loaded; and a call given a buffer layer with rows that
   writes nothing ends in an error raised to the caller. *)
C16_PlanningFileWrittenOnceAtTheEnd ==
    Merging =>
        /\ Cardinality(Writes) <= 1
        /\ \A i \in Writes :
              /\ i = Len(log)
              /\ pc = "done" /\ ret.how = "return"
              /\ ~empty(unique_output_buffer)
              /\ Did("clean")
              /\ buffer_gdf.crs = future_dev_gdf.crs
              /\ ~schema_error(buffer_gdf, future_dev_gdf)
              /\ merged_gdf.rows = future_dev_gdf.rows \o buffer_gdf.rows
              /\ merged_gdf.crs = output_crs[1]
              /\ future_development_feature_class = merged_gdf
              /\ ret.value = merged_gdf
        /\ Writes = {} => future_development_feature_class = planning_on_load
        /\ (pc = "done" /\ ret.how # "return") => (ret.how = "raise" /\ Writes = {})
        /\ (pc = "done" /\ ~empty(unique_output_buffer) /\ Writes = {}) =>
              ret.how = "raise"

C16_Witness ==
    /\ Merging /\ pc = "done"
    /\ merges = 2
    /\ ret.how = "raise"
    /\ Writes = {}
    /\ future_development_feature_class = planning_on_load
    /\ BufferRowCount(future_development_feature_class) = 2
    /\ Len(future_development_feature_class.rows) = 3

====
